---------------------------- MODULE Spec2Model ----------------------------
(***************************************************************************)
(* A model of check_pelosi_scrape.py: one polling cycle (main) that loads  *)
(* last_seen.json, fetches the page (requests, then Playwright), extracts  *)
(* trade rows heuristically, notifies over Telegram when the newest row is *)
(* new, and then rewrites last_seen.json.                                  *)
(*                                                                         *)
(* Text is modelled as a sequence of one-character strings, so that        *)
(* strip(), lower(), the regular expressions and the f-string that builds  *)
(* a trade's identifier are computed, not assumed.                         *)
(***************************************************************************)
EXTENDS Integers, Sequences, FiniteSets, TLC

VARIABLES
    cols,             \* row_to_trade: the argument (a list of cell texts)
    trade,            \* row_to_trade: the returned value
    html,             \* parse_trades_from_html: the parsed document
    unique,           \* parse_trades_from_html: the returned list
    pc,               \* position of the running call
    file,             \* last_seen.json on disk
    FORCE_PLAYWRIGHT, \* module global, read from USE_PLAYWRIGHT
    TELEGRAM,         \* TELEGRAM_TOKEN and TELEGRAM_CHAT are both set
    page,             \* what the site serves: raw HTML and rendered HTML
    last_id,          \* main: last.get("last_trade_id")
    trades,           \* main: the extracted trades
    cyc,              \* what the running cycle has done so far
    prev,             \* how the previous cycle ended
    delivered         \* ids delivered since the page last changed, with counts

vars == <<cols, trade, html, unique, pc, file, FORCE_PLAYWRIGHT, TELEGRAM,
          page, last_id, trades, cyc, prev, delivered>>

(***************************************************************************)
(* Bounds of the model.                                                    *)
(***************************************************************************)
MaxCols == 4
MaxItems == 2
MaxFound == 2
MaxTime == 2

(***************************************************************************)
(* Characters and strings.                                                 *)
(***************************************************************************)
UpperCase == <<"A","B","C","D","E","F","G","H","I","J","K","L","M",
               "N","O","P","Q","R","S","T","U","V","W","X","Y","Z">>
LowerCase == <<"a","b","c","d","e","f","g","h","i","j","k","l","m",
               "n","o","p","q","r","s","t","u","v","w","x","y","z">>
Digits == {"0","1","2","3","4","5","6","7","8","9"}
Whitespace == {" ", "\t", "\n"}

Range(s) == {s[i] : i \in 1..Len(s)}
Min(a, b) == IF a <= b THEN a ELSE b

\* Python's None, as a value no text equals (text is made of single characters).
None == <<"None">>

\* str.lower(), one character
LowerChar(ch) ==
    IF ch \in Range(UpperCase)
    THEN LowerCase[CHOOSE i \in 1..Len(UpperCase) : UpperCase[i] = ch]
    ELSE ch

\* str.lower()
lower(s) == [i \in 1..Len(s) |-> LowerChar(s[i])]

\* str.strip()
Lowest(S) == CHOOSE i \in S : \A j \in S : i <= j
Highest(S) == CHOOSE i \in S : \A j \in S : j <= i
StripTo(s, keep) ==
    IF keep = {} THEN <<>> ELSE SubSeq(s, Lowest(keep), Highest(keep))
strip(s) == StripTo(s, {i \in 1..Len(s) : s[i] \notin Whitespace})

\* the `in` operator on strings: w in s
Contains(w, s) ==
    \E i \in 1..(Len(s) - Len(w) + 1) : SubSeq(s, i, i + Len(w) - 1) = w

\* sep.join(parts)
RECURSIVE join(_, _)
join(sep, parts) ==
    IF parts = <<>> THEN <<>>
    ELSE IF Len(parts) = 1 THEN parts[1]
    ELSE parts[1] \o sep \o join(sep, Tail(parts))

\* a regex \w character
IsWordChar(ch) ==
    ch \in Range(UpperCase) \cup Range(LowerCase) \cup Digits \cup {"_"}

(***************************************************************************)
(* Parsing heuristics.                                                     *)
(***************************************************************************)
TickerMinLen == 1
TickerMaxLen == 6
TickerChars == Range(UpperCase) \cup Digits \cup {".", "-"}

\* ^[A-Z0-9\.\-]{1,6}$ on the whole of c
TickerBody(c) ==
    /\ Len(c) >= TickerMinLen
    /\ Len(c) <= TickerMaxLen
    /\ \A i \in 1..Len(c) : c[i] \in TickerChars

\* TICKER_RE.match(c): in Python `$` also matches before one trailing newline
TICKER_RE_match(c) ==
    \/ TickerBody(c)
    \/ /\ Len(c) >= 1
       /\ c[Len(c)] = "\n"
       /\ TickerBody(SubSeq(c, 1, Len(c) - 1))

\* DATE_RE.search(c): \d{4}-\d{2}-\d{2} anywhere in c
DATE_RE_search(c) ==
    \E i \in 1..(Len(c) - 9) :
        /\ \A k \in {0, 1, 2, 3, 5, 6, 8, 9} : c[i + k] \in Digits
        /\ c[i + 4] = "-"
        /\ c[i + 7] = "-"

\* re.search(r"\bQ[1-4]\b", c)
QuarterSearch(c) ==
    \E i \in 1..(Len(c) - 1) :
        /\ c[i] = "Q"
        /\ c[i + 1] \in {"1", "2", "3", "4"}
        /\ (i = 1 \/ ~IsWordChar(c[i - 1]))
        /\ (i + 1 = Len(c) \/ ~IsWordChar(c[i + 2]))

\* re.search(r"\d{1,2}/\d{1,2}/\d{2,4}", c): a search, so one leading digit and
\* two trailing digits are enough
SlashDateSearch(c) ==
    \E i \in 1..Len(c) : \E m \in {1, 2} :
        /\ i + 4 + m <= Len(c)
        /\ c[i] \in Digits
        /\ c[i + 1] = "/"
        /\ \A k \in 1..m : c[i + 1 + k] \in Digits
        /\ c[i + 2 + m] = "/"
        /\ c[i + 3 + m] \in Digits
        /\ c[i + 4 + m] \in Digits

TransactionWords ==
    { <<"b","u","y">>, <<"s","e","l","l">>,
      <<"p","u","r","c","h","a","s","e">>, <<"s","a","l","e">>,
      <<"o","p","t","i","o","n">> }

\* any(w in c.lower() for w in ("buy", "sell", "purchase", "sale", "option"))
LooksLikeTransaction(c) == \E w \in TransactionWords : Contains(w, lower(c))

\* DATE_RE.search(c) or re.search(r"\bQ[1-4]\b", c) or re.search(<slash date>, c)
LooksLikeDate(c) == DATE_RE_search(c) \/ QuarterSearch(c) \/ SlashDateSearch(c)

\* [c.strip() for c in cols if c and c.strip()]
CleanCols(cs) ==
    SelectSeq([i \in 1..Len(cs) |-> strip(cs[i])], LAMBDA c : c /= <<>>)

\* the first of the cells at the positions hit, or dflt when there is none
FirstAt(cs, hit, dflt) == IF hit = {} THEN dflt ELSE cs[Lowest(hit)]

\* a faulty variant of FindTicker: every column is searched, not only the first three
FindTickerAnyColumn(cs) ==
    FirstAt(cs, {i \in 1..Len(cs) : TICKER_RE_match(cs[i])}, None)

\* the loop `for c in cols[:3]: if TICKER_RE.match(c): ticker = c; break`
FindTicker(cs) ==
    FirstAt(cs, {i \in 1..Min(3, Len(cs)) : TICKER_RE_match(cs[i])}, None)

\* next((c for c in cols if LooksLikeTransaction(c)), "")
FirstTransaction(cs) ==
    FirstAt(cs, {i \in 1..Len(cs) : LooksLikeTransaction(cs[i])}, <<>>)

\* next((c for c in cols if LooksLikeDate(c)), "")
FirstTraded(cs) ==
    FirstAt(cs, {i \in 1..Len(cs) : LooksLikeDate(cs[i])}, <<>>)

Sep == <<"|", "|">>
\* " -- " of summary_text, its dash one character of the message
Dash == <<" ", "--", " ">>

\* what row_to_trade returns for a row that is not a trade
NoTrade == [id |-> None, raw |-> <<>>, summary_text |-> <<>>]

\* the fallbacks `if not transaction and len(cols) >= 2: transaction = cols[1]`
\* and `if not traded and len(cols) >= 4: traded = cols[3]`
TransactionOr2nd(cs, t0) == IF t0 = <<>> /\ Len(cs) >= 2 THEN cs[2] ELSE t0
TradedOr4th(cs, d0) == IF d0 = <<>> /\ Len(cs) >= 4 THEN cs[4] ELSE d0

\* ' | '.join(cols[4:]) if len(cols) > 4 else ''
Trailing(cs) ==
    IF Len(cs) > 4 THEN join(<<" ", "|", " ">>, SubSeq(cs, 5, Len(cs)))
    ELSE <<>>

\* the dict row_to_trade returns: identifier and summary_text as it formats them
MakeTrade(cs, ticker, transaction, traded) ==
    [ id |-> ticker \o Sep \o transaction \o Sep \o traded,
      raw |-> cs,
      summary_text |->
          strip(traded \o Dash \o transaction \o <<" ">> \o ticker
                \o Dash \o Trailing(cs)) ]

\* row_to_trade from `if not ticker: return None` on
TradeWithTicker(cs, ticker) ==
    IF ticker = None THEN NoTrade
    ELSE MakeTrade(cs, ticker,
                   TransactionOr2nd(cs, FirstTransaction(cs)),
                   TradedOr4th(cs, FirstTraded(cs)))

\* row_to_trade once the cells are stripped and the empty ones dropped
TradeOfCleaned(cs) ==
    IF cs = <<>> THEN NoTrade ELSE TradeWithTicker(cs, FindTicker(cs))

row_to_trade(row) ==
    IF row = <<>> THEN NoTrade ELSE TradeOfCleaned(CleanCols(row))

(***************************************************************************)
(* Cell texts the rows of the model are made of.                           *)
(***************************************************************************)
cTSLA == <<"T","S","L","A">>
cPadded == <<" ","N","V","D","A","\n">>
cBRK == <<"B","R","K",".","B">>
cSeven == <<"A","B","C","D","E","F","G">>
cAmp == <<"A","T","&","T">>
cSale == <<"S","a","l","e">>
cBuy == <<"B","U","Y">>
cDate == <<"2","0","2","4","-","0","1","-","1","5">>
cQ1 == <<"Q","1">>
cBlank == <<" ">>

Cells == {<<>>, cBlank, cPadded, cBRK, cSeven, cAmp, cSale, cDate, cQ1}

RECURSIVE SeqsUpTo(_, _)
SeqsUpTo(S, n) ==
    IF n = 0 THEN {<<>>}
    ELSE LET shorter == SeqsUpTo(S, n - 1)
         IN  shorter \cup {Append(s, x) : s \in {t \in shorter : Len(t) = n - 1}, x \in S}

RowInputs == SeqsUpTo(Cells, MaxCols)

(***************************************************************************)
(* The document, as BeautifulSoup presents it to parse_trades_from_html:   *)
(* items are the <table> elements and the <tr> elements outside any table, *)
(* in document order; found lists (by position in items) the tables the    *)
(* heading search collected, in the order and with the repeats it          *)
(* collected them.                                                         *)
(***************************************************************************)
Table(rows) == [tag |-> "table", rows |-> rows]
StrayRow(row) == [tag |-> "tr", rows |-> <<row>>]

\* soup.find_all("table")
AllTables(h) == SelectSeq([i \in 1..Len(h.items) |-> i],
                          LAMBDA i : h.items[i].tag = "table")

\* the heading loop, then `if not possible_tables: soup.find_all("table")`
PossibleTables(h) == IF h.found = <<>> THEN AllTables(h) ELSE h.found

\* row_to_trade's result appended `if trade:`
Kept(t) == IF t = NoTrade THEN <<>> ELSE <<t>>

\* the inner loop over <tr>: the rows that row_to_trade accepts, in order
RECURSIVE RowsToTrades(_)
RowsToTrades(rows) ==
    IF rows = <<>> THEN <<>>
    ELSE Kept(row_to_trade(Head(rows))) \o RowsToTrades(Tail(rows))

\* the trades of the table at position i of the document
TableTrades(h, i) == RowsToTrades(h.items[i].rows)

\* a faulty variant of ScanTables: the loop without its `break`
RECURSIVE ScanTablesNoBreak(_, _, _)
ScanTablesNoBreak(h, pt, acc) ==
    IF pt = <<>> THEN acc
    ELSE ScanTablesNoBreak(h, Tail(pt), acc \o TableTrades(h, Head(pt)))

\* `for table in possible_tables: ...; if trades: break`, acc the trades
\* after the rows of Head(pt) were appended
RECURSIVE ScanTables(_, _, _)
ScanTables(h, pt, acc) ==
    IF pt = <<>> THEN acc
    ELSE IF acc \o TableTrades(h, Head(pt)) /= <<>>
         THEN acc \o TableTrades(h, Head(pt))
         ELSE ScanTables(h, Tail(pt), acc)

\* soup.find_all("tr"): every row of the document, in document order
RECURSIVE AllRows(_)
AllRows(items) ==
    IF items = <<>> THEN <<>>
    ELSE Head(items).rows \o AllRows(Tail(items))

\* `if not trades:` scan all <tr> on the page
Fallback(h, scanned) ==
    IF scanned = <<>> THEN RowsToTrades(AllRows(h.items)) ELSE scanned

\* the de-dup loop: the first trade of each id, order kept
RECURSIVE Dedup(_, _)
Dedup(ts, seen) ==
    IF ts = <<>> THEN <<>>
    ELSE IF Head(ts).id \in seen THEN Dedup(Tail(ts), seen)
    ELSE <<Head(ts)>> \o Dedup(Tail(ts), seen \cup {Head(ts).id})

parse_trades_from_html(h) ==
    Dedup(Fallback(h, ScanTables(h, PossibleTables(h), <<>>)), {})

(***************************************************************************)
(* Rows, tables and documents the model parses.                            *)
(***************************************************************************)
rowHead == <<cSale, cDate>>
rowA == <<cTSLA, cSale, cDate>>
rowA2 == <<cTSLA, cSale, cDate, cAmp, cSeven>>
rowB == <<cBRK, cBuy, cQ1>>

TableRows == { <<>>, <<rowHead>>, <<rowHead, rowA>>, <<rowB, rowA>>,
               <<rowA, rowA2>>, <<rowB>> }
Items == {Table(r) : r \in TableRows} \cup {StrayRow(rowA), StrayRow(rowB)}

Docs ==
    { [items |-> its, found |-> f] :
        its \in SeqsUpTo(Items, MaxItems),
        f \in SeqsUpTo(1..MaxItems, MaxFound) }

\* found names tables of the document
WellFormed(h) ==
    \A k \in 1..Len(h.found) :
        /\ h.found[k] <= Len(h.items)
        /\ h.items[h.found[k]].tag = "table"

ParseInputs == {h \in Docs : WellFormed(h)}

Idle == [calls |-> 0]

(***************************************************************************)
(* SpecRow: row_to_trade applied to every row of RowInputs.                *)
(***************************************************************************)
RowInit ==
    /\ cols \in RowInputs
    /\ trade = NoTrade
    /\ pc = "row_call"
    /\ html = <<>> /\ unique = <<>> /\ file = <<>>
    /\ FORCE_PLAYWRIGHT = FALSE /\ TELEGRAM = FALSE /\ page = <<>>
    /\ last_id = None /\ trades = <<>> /\ cyc = Idle /\ prev = Idle
    /\ delivered = <<>>

CallRowToTrade ==
    /\ pc = "row_call"
    /\ trade' = row_to_trade(cols)
    /\ pc' = "row_returned"
    /\ UNCHANGED <<cols, html, unique, file, FORCE_PLAYWRIGHT, TELEGRAM, page,
                   last_id, trades, cyc, prev, delivered>>

RowNext == CallRowToTrade

SpecRow == RowInit /\ [][RowNext]_vars

(***************************************************************************)
(* SpecParse: parse_trades_from_html applied to every document of          *)
(* ParseInputs.                                                            *)
(***************************************************************************)
ParseInit ==
    /\ html \in ParseInputs
    /\ unique = <<>>
    /\ pc = "parse_call"
    /\ cols = <<>> /\ trade = NoTrade /\ file = <<>>
    /\ FORCE_PLAYWRIGHT = FALSE /\ TELEGRAM = FALSE /\ page = <<>>
    /\ last_id = None /\ trades = <<>> /\ cyc = Idle /\ prev = Idle
    /\ delivered = <<>>

CallParse ==
    /\ pc = "parse_call"
    /\ unique' = parse_trades_from_html(html)
    /\ pc' = "parse_returned"
    /\ UNCHANGED <<cols, trade, html, file, FORCE_PLAYWRIGHT, TELEGRAM, page,
                   last_id, trades, cyc, prev, delivered>>

ParseNext == CallParse

SpecParse == ParseInit /\ [][ParseNext]_vars


(***************************************************************************)
(* last_seen.json.  kind says what is on disk: no file, a file that cannot *)
(* be read, bytes that are not JSON (an empty or half-written file), JSON  *)
(* that is not an object, or a JSON object.  An object without the key     *)
(* last_trade_id has last_trade_id = None.                                 *)
(***************************************************************************)
NoFile(kind) ==
    [kind |-> kind, last_trade_id |-> None, timestamp |-> 0, summary |-> <<>>]
Stored(id, ts, summary) ==
    [kind |-> "object", last_trade_id |-> id, timestamp |-> ts,
     summary |-> summary]

\* {} as load_last_seen returns it
EmptyState == [last_trade_id |-> None]

\* the body of load_last_seen's try block (not in the source at hand): the
\* parsed object, or {} after the warning when reading or parsing fails
ReadState(f) ==
    IF f.kind = "object" THEN [last_trade_id |-> f.last_trade_id]
    ELSE EmptyState

load_last_seen(f) ==
    IF f.kind = "absent" THEN EmptyState ELSE ReadState(f)

\* a faulty variant of LastTradeId: a key that save_last_seen never writes is read
LastTradeIdWrongKey(last) == None

\* last.get("last_trade_id")
LastTradeId(last) == last.last_trade_id

\* the identity the state on disk holds, None when it holds none
StoredId(f) == LastTradeId(load_last_seen(f))

\* the POST of send_telegram (not in the source at hand): delivered or not
TelegramPost == {TRUE, FALSE}

\* send_telegram: False without credentials, else what the POST gives
send_telegram(configured) == IF configured THEN TelegramPost ELSE {FALSE}

\* fetch_via_requests / fetch_via_playwright: the HTML, or None on any failure
NoHtml == [items |-> <<>>, found |-> <<0>>]
fetch_via_requests(pg) == {NoHtml, pg.raw}
fetch_via_playwright(pg) == {NoHtml, pg.rendered}

\* the pages the site serves in the model
docEmpty == [items |-> <<>>, found |-> <<>>]
docA == [items |-> <<Table(<<rowHead, rowA>>)>>, found |-> <<1>>]
docBA == [items |-> <<Table(<<rowHead>>), Table(<<rowB, rowA>>)>>,
          found |-> <<>>]
Pages == {docEmpty, docA, docBA}

\* parse_trades_from_html, tabulated on the pages
ParsedPage == [h \in Pages |-> parse_trades_from_html(h)]

\* `if html: trades = parse_trades_from_html(html)`
TradesOf(h) == IF h = NoHtml THEN <<>> ELSE ParsedPage[h]

\* a faulty variant of NeedFallback: Playwright is always tried
NeedFallbackAlways(tr) == TRUE

\* `if not trades:` before the Playwright fetch
NeedFallback(tr) == tr = <<>>

\* a faulty variant of IsNew: with no stored id nothing is new
IsNewUnlessFirstRun(latest_id, lid) == lid /= None /\ latest_id /= lid

\* the negation of `latest["id"] == last_id`
IsNew(latest_id, lid) == latest_id /= lid

\* the three ways main goes on once fetching is over
Decision(tr, lid) ==
    IF tr = <<>> THEN "no_trades"
    ELSE IF ~IsNew(tr[1].id, lid) THEN "no_new"
    ELSE "notify"

\* a faulty variant of AfterSend: the state is saved whatever send_telegram returned
AfterSendAlwaysSave(ok) == "save"

\* a faulty variant of AfterSend: a failed send is tried again within the cycle
AfterSendRetry(ok) == IF ok THEN "save" ELSE "notify"

\* `if not ok: ... return 3`, else on to save_last_seen
AfterSend(ok) == IF ok THEN "save" ELSE "done"

\* a faulty variant of NewState: the last extracted trade is recorded
NewStateOfLast(tr, ts) ==
    Stored(tr[Len(tr)].id, ts, tr[Len(tr)].summary_text)

\* {"last_trade_id": latest["id"], "timestamp": now_ts, "summary": ...}
NewState(tr, ts) == Stored(tr[1].id, ts, tr[1].summary_text)

\* save_last_seen: open(..., "w") raises and leaves the file as it was; or it
\* truncates the file and the write raises or is cut short; or the object is
\* written
SaveOutcomes == {"written", "open_failed", "write_failed"}
FileAfterSave(f, obj, outcome) ==
    CASE outcome = "written" -> obj
      [] outcome = "open_failed" -> f
      [] outcome = "write_failed" -> NoFile("garbage")

\* a faulty variant of AfterSave: an exception of save_last_seen is swallowed
AfterSaveSwallow(outcome) == "saved"

\* save_last_seen returns, or its exception leaves main
AfterSave(outcome) == IF outcome = "written" THEN "saved" ELSE "raised"

ExitOk == 0
ExitUncaught == 1
ExitNoTrades == 2
ExitSendFailed == 3

\* a faulty variant of ExitCode: "no trades" leaves with 0
ExitCodeNoTradesOk(outcome) ==
    CASE outcome = "no_trades" -> ExitOk
      [] outcome = "no_new" -> ExitOk
      [] outcome = "send_failed" -> ExitSendFailed
      [] outcome = "saved" -> ExitOk
      [] outcome = "raised" -> ExitUncaught

\* the process's exit status for each way main ends
ExitCode(outcome) ==
    CASE outcome = "no_trades" -> ExitNoTrades
      [] outcome = "no_new" -> ExitOk
      [] outcome = "send_failed" -> ExitSendFailed
      [] outcome = "saved" -> ExitOk
      [] outcome = "raised" -> ExitUncaught

(***************************************************************************)
(* The pages and the states of last_seen.json the cycle is run on.         *)
(***************************************************************************)
idA == row_to_trade(rowA).id
idB == row_to_trade(rowB).id
idOld == <<"X">> \o Sep \o cSale \o Sep \o cDate
Ids == {idA, idB}

InitialFiles ==
    {NoFile(k) : k \in {"absent", "unreadable", "garbage", "not_object"}}
    \cup {Stored(None, 1, <<>>)}
    \cup {Stored(i, 1, <<>>) : i \in Ids \cup {idOld}}

NoCount == [i \in Ids |-> 0]

\* a cycle that has done nothing yet
Fresh(f) ==
    [fast |-> FALSE, fastCount |-> 0, rendered |-> FALSE, renderedCount |-> 0,
     sends |-> 0, sentId |-> None, ok |-> "none", save |-> "none",
     start |-> f, outcome |-> "running"]

NoPrev == [ok |-> "none", save |-> "none", sentId |-> None]

(***************************************************************************)
(* Spec: cycles of main, one after the other, as the schedule runs them.   *)
(***************************************************************************)
Init ==
    /\ pc = "idle"
    /\ file \in InitialFiles
    /\ FORCE_PLAYWRIGHT \in BOOLEAN
    /\ TELEGRAM \in BOOLEAN
    /\ page \in [raw : Pages, rendered : Pages]
    /\ last_id = None
    /\ trades = <<>>
    /\ cyc = Fresh(file)
    /\ prev = NoPrev
    /\ delivered = NoCount
    /\ cols = <<>> /\ trade = NoTrade /\ html = <<>> /\ unique = <<>>

\* main up to the fetch: last = load_last_seen(); last_id = last.get(...)
StartCycle ==
    /\ pc = "idle"
    /\ last_id' = LastTradeId(load_last_seen(file))
    /\ trades' = <<>>
    /\ prev' = [ok |-> cyc.ok, save |-> cyc.save, sentId |-> cyc.sentId]
    /\ cyc' = Fresh(file)
    /\ pc' = "fetch"
    /\ UNCHANGED <<cols, trade, html, unique, file, FORCE_PLAYWRIGHT, TELEGRAM,
                   page, delivered>>

\* `if not FORCE_PLAYWRIGHT:` the requests fetch and its parse
RequestsFetch(h) ==
    /\ pc = "fetch"
    /\ ~FORCE_PLAYWRIGHT
    /\ h \in fetch_via_requests(page)
    /\ LET tr == TradesOf(h)
       IN  /\ trades' = tr
           /\ cyc' = [cyc EXCEPT !.fast = TRUE, !.fastCount = Len(tr)]
    /\ pc' = "fallback"
    /\ UNCHANGED <<cols, trade, html, unique, file, FORCE_PLAYWRIGHT, TELEGRAM,
                   page, last_id, prev, delivered>>

\* `else:` FORCE_PLAYWRIGHT set, the requests fetch is skipped
SkipRequests ==
    /\ pc = "fetch"
    /\ FORCE_PLAYWRIGHT
    /\ pc' = "fallback"
    /\ UNCHANGED <<cols, trade, html, unique, file, FORCE_PLAYWRIGHT, TELEGRAM,
                   page, last_id, trades, cyc, prev, delivered>>

\* `if not trades:` the Playwright fetch and its parse
PlaywrightFetch(h) ==
    /\ pc = "fallback"
    /\ NeedFallback(trades)
    /\ h \in fetch_via_playwright(page)
    /\ LET tr == TradesOf(h)
       IN  /\ trades' = IF h = NoHtml THEN trades ELSE tr
           /\ cyc' = [cyc EXCEPT !.rendered = TRUE, !.renderedCount = Len(tr)]
    /\ pc' = "decide"
    /\ UNCHANGED <<cols, trade, html, unique, file, FORCE_PLAYWRIGHT, TELEGRAM,
                   page, last_id, prev, delivered>>

\* trades were found by requests: no fallback
SkipPlaywright ==
    /\ pc = "fallback"
    /\ ~NeedFallback(trades)
    /\ pc' = "decide"
    /\ UNCHANGED <<cols, trade, html, unique, file, FORCE_PLAYWRIGHT, TELEGRAM,
                   page, last_id, trades, cyc, prev, delivered>>

\* `if not trades: return 2`, `if latest["id"] == last_id: return 0`
Decide ==
    /\ pc = "decide"
    /\ LET d == Decision(trades, last_id)
       IN  IF d = "notify"
           THEN pc' = "notify" /\ cyc' = cyc
           ELSE pc' = "done" /\ cyc' = [cyc EXCEPT !.outcome = d]
    /\ UNCHANGED <<cols, trade, html, unique, file, FORCE_PLAYWRIGHT, TELEGRAM,
                   page, last_id, trades, prev, delivered>>

\* ok = send_telegram(message); `if not ok: return 3`
Notify(ok) ==
    /\ pc = "notify"
    /\ ok \in send_telegram(TELEGRAM)
    /\ cyc' = [cyc EXCEPT !.sends = @ + 1,
                          !.sentId = trades[1].id,
                          !.ok = IF ok THEN "ok" ELSE "failed",
                          !.outcome = IF AfterSend(ok) = "done"
                                      THEN "send_failed" ELSE @]
    /\ delivered' = IF ok /\ trades[1].id \in Ids
                    THEN [delivered EXCEPT ![trades[1].id] = Min(@ + 1, 2)]
                    ELSE delivered
    /\ pc' = AfterSend(ok)
    /\ UNCHANGED <<cols, trade, html, unique, file, FORCE_PLAYWRIGHT, TELEGRAM,
                   page, last_id, trades, prev>>

\* now_ts = int(time.time()); save_last_seen({...}); return 0
Save(ts, outcome) ==
    /\ pc = "save"
    /\ ts \in 1..MaxTime
    /\ outcome \in SaveOutcomes
    /\ file' = FileAfterSave(file, NewState(trades, ts), outcome)
    /\ cyc' = [cyc EXCEPT !.save = outcome, !.outcome = AfterSave(outcome)]
    /\ pc' = "done"
    /\ UNCHANGED <<cols, trade, html, unique, FORCE_PLAYWRIGHT, TELEGRAM,
                   page, last_id, trades, prev, delivered>>

\* sys.exit(exit_code): the process is gone until the schedule runs it again
Exit ==
    /\ pc = "done"
    /\ pc' = "idle"
    /\ UNCHANGED <<cols, trade, html, unique, file, FORCE_PLAYWRIGHT, TELEGRAM,
                   page, last_id, trades, cyc, prev, delivered>>

\* between two cycles the site publishes something else
PageUpdate ==
    /\ pc = "idle"
    /\ page' \in [raw : Pages, rendered : Pages] \ {page}
    /\ delivered' = NoCount
    /\ UNCHANGED <<cols, trade, html, unique, pc, file, FORCE_PLAYWRIGHT,
                   TELEGRAM, last_id, trades, cyc, prev>>

Cycle ==
    \/ StartCycle
    \/ \E h \in Pages \cup {NoHtml} : RequestsFetch(h)
    \/ SkipRequests
    \/ \E h \in Pages \cup {NoHtml} : PlaywrightFetch(h)
    \/ SkipPlaywright
    \/ Decide
    \/ \E ok \in BOOLEAN : Notify(ok)
    \/ \E ts \in 1..MaxTime : \E outcome \in SaveOutcomes : Save(ts, outcome)
    \/ Exit

Next == Cycle \/ PageUpdate

Spec == Init /\ [][Next]_vars

(***************************************************************************)
(* LiveSpec: the cycles of Spec on a page that does not change, with       *)
(* credentials set.  The schedule keeps running cycles; a fetch that is    *)
(* tried again and again eventually returns the page, and a send that is   *)
(* tried again and again eventually succeeds.  Nothing makes a write of    *)
(* last_seen.json succeed.                                                 *)
(***************************************************************************)
LiveInit ==
    /\ Init
    /\ TELEGRAM
    /\ page.raw = page.rendered

LiveSpec ==
    /\ LiveInit
    /\ [][Cycle]_vars
    /\ WF_vars(Cycle)
    /\ SF_vars(RequestsFetch(page.raw))
    /\ SF_vars(PlaywrightFetch(page.rendered))
    /\ SF_vars(Notify(TRUE))

(***************************************************************************)
(* Properties.                                                             *)
(***************************************************************************)
IdsOf(ts) == {ts[i].id : i \in 1..Len(ts)}

\* C8's ticker pattern, stated on its own: 1 to 6 characters, each one of
\* A-Z, 0-9, '.', '-'
C8_TickerShaped(c) ==
    /\ Len(c) \in 1..6
    /\ \A i \in 1..Len(c) :
         \/ \E k \in 1..26 : UpperCase[k] = c[i]
         \/ c[i] \in {"0","1","2","3","4","5","6","7","8","9", ".", "-"}

\* the positions, among the first three non-empty trimmed cells of cols, of
\* the cells that match the ticker pattern
C8_Hits ==
    {i \in 1..Min(3, Len(CleanCols(cols))) :
        C8_TickerShaped(CleanCols(cols)[i])}

\* C8: row_to_trade returns None whenever none of the row's first three
\* non-empty trimmed cells matches the ticker pattern; a record is returned
\* only when such a cell exists, and its identity starts with the first one.
C8_RowToTradeNeedsTicker ==
    pc = "row_returned" =>
        /\ (C8_Hits = {} => trade = NoTrade)
        /\ (trade /= NoTrade =>
               /\ C8_Hits /= {}
               /\ LET t == CleanCols(cols)[Lowest(C8_Hits)]
                  IN  /\ Len(trade.id) >= Len(t) + 2
                      /\ SubSeq(trade.id, 1, Len(t) + 2) = t \o Sep)

\* a row whose only ticker-shaped cell is the fourth was rejected
C8_Witness ==
    /\ pc = "row_returned"
    /\ trade = NoTrade
    /\ C8_Hits = {}
    /\ Len(CleanCols(cols)) = 4
    /\ C8_TickerShaped(CleanCols(cols)[4])

\* the candidate tables (positions in PossibleTables) that yield a trade
C10_Yielding ==
    {k \in 1..Len(PossibleTables(html)) :
        TableTrades(html, PossibleTables(html)[k]) /= <<>>}

\* the trades of the first candidate table that yields one
C10_FirstYield == TableTrades(html, PossibleTables(html)[Lowest(C10_Yielding)])

\* C10: the candidate tables are scanned in order and the scan stops after
\* the first that yields a trade, so what is returned are the trades of that
\* one table; only when no candidate yields a trade is every row of the
\* document scanned, and then every row's trade is returned.
C10_ShortCircuit ==
    pc = "parse_returned" =>
        IF C10_Yielding /= {}
        THEN /\ Range(unique) \subseteq Range(C10_FirstYield)
             /\ IdsOf(unique) = IdsOf(C10_FirstYield)
        ELSE /\ Range(unique) \subseteq Range(RowsToTrades(AllRows(html.items)))
             /\ IdsOf(unique) =
                    {row_to_trade(r).id : r \in Range(AllRows(html.items))}
                    \ {None}

\* a later candidate table held a trade of another id, which was left out
C10_Witness ==
    /\ pc = "parse_returned"
    /\ C10_Yielding /= {}
    /\ \E k \in C10_Yielding :
          /\ k > Lowest(C10_Yielding)
          /\ ~(IdsOf(TableTrades(html, PossibleTables(html)[k]))
                 \subseteq IdsOf(unique))

\* C1: when a new trade is detected and send_telegram returns False (as it
\* does with a credential missing), main returns 3, save_last_seen is not
\* called, and last_seen.json is as it was when the cycle started.
C1_SendFailureLeavesState ==
    /\ (cyc.sends > 0 /\ ~TELEGRAM => cyc.ok = "failed")
    /\ (cyc.ok = "failed" =>
           /\ pc \in {"done", "idle"}
           /\ cyc.sends = 1
           /\ ExitCode(cyc.outcome) = ExitSendFailed
           /\ cyc.save = "none"
           /\ file = cyc.start)

\* a cycle found a new trade and could not send for want of credentials
C1_Witness ==
    /\ pc = "done"
    /\ ~TELEGRAM
    /\ cyc.ok = "failed"
    /\ cyc.start.kind = "object"

\* C2, as claimed: with trades extracted, a stored id equal to the first
\* trade's means no notification, the state untouched and exit 0; otherwise
\* exactly one notification, for the first trade, and after a successful
\* send the stored id is that trade's.
C2_LatestOnly_AsClaimed ==
    pc = "done" /\ trades /= <<>> =>
        IF StoredId(cyc.start) = trades[1].id
        THEN /\ cyc.sends = 0
             /\ file = cyc.start
             /\ ExitCode(cyc.outcome) = ExitOk
        ELSE /\ cyc.sends = 1
             /\ cyc.sentId = trades[1].id
             /\ (cyc.ok = "ok" => StoredId(file) = trades[1].id)

\* C2, amended: as claimed, but the stored id becomes the first trade's
\* when the send succeeded and save_last_seen wrote the file.
C2_LatestOnly ==
    pc = "done" /\ trades /= <<>> =>
        IF StoredId(cyc.start) = trades[1].id
        THEN /\ cyc.sends = 0
             /\ file = cyc.start
             /\ ExitCode(cyc.outcome) = ExitOk
        ELSE /\ cyc.sends = 1
             /\ cyc.sentId = trades[1].id
             /\ (cyc.ok = "ok" /\ cyc.save = "written" =>
                    /\ StoredId(file) = trades[1].id
                    /\ ExitCode(cyc.outcome) = ExitOk)

\* two trades were extracted, the stored id was another one, and the first
\* trade was sent and recorded
C2_Witness ==
    /\ pc = "done"
    /\ Len(trades) >= 2
    /\ StoredId(cyc.start) \notin {None, trades[1].id}
    /\ cyc.ok = "ok"
    /\ cyc.save = "written"

\* C4: when neither fetch gives a trade, main returns 2, nothing is sent
\* and last_seen.json is as it was when the cycle started.
C4_NoTradesExit2 ==
    pc = "done" /\ cyc.fastCount = 0 /\ cyc.renderedCount = 0 =>
        /\ trades = <<>>
        /\ ExitCode(cyc.outcome) = ExitNoTrades
        /\ cyc.sends = 0
        /\ cyc.save = "none"
        /\ file = cyc.start

\* both fetches were made, on a page that has trades, and neither gave any
C4_Witness ==
    /\ pc = "done"
    /\ cyc.fast /\ cyc.rendered
    /\ cyc.fastCount = 0 /\ cyc.renderedCount = 0
    /\ page.raw = docA

\* C5: Playwright is invoked exactly when it is forced or the requests
\* fetch gave no trade; when forced, requests is not tried; when requests
\* gives a trade, Playwright is not invoked; when neither gives one the
\* cycle ends as "no trades".
C5_FetchOrder ==
    /\ (cyc.rendered => FORCE_PLAYWRIGHT \/ (cyc.fast /\ cyc.fastCount = 0))
    /\ (FORCE_PLAYWRIGHT => ~cyc.fast)
    /\ (cyc.fastCount > 0 => ~cyc.rendered)
    /\ (pc \in {"decide", "notify", "save", "done"} =>
           /\ (cyc.rendered <=> (FORCE_PLAYWRIGHT \/ cyc.fastCount = 0))
           /\ (cyc.fast <=> ~FORCE_PLAYWRIGHT))
    /\ (pc = "done" /\ cyc.fastCount = 0 /\ cyc.renderedCount = 0 =>
           cyc.outcome = "no_trades")

\* requests gave HTML without a trade, and the Playwright fallback gave one
C5_Witness ==
    /\ pc = "done"
    /\ ~FORCE_PLAYWRIGHT
    /\ cyc.fast /\ cyc.fastCount = 0
    /\ cyc.rendered /\ cyc.renderedCount > 0

\* C6: when the write of save_last_seen fails, the cycle does not end with
\* exit code 0: the exception leaves main, an ending that is neither "no
\* trades" nor "send failed".
C6_SaveFailureSurfaces ==
    cyc.save \in {"open_failed", "write_failed"} =>
        /\ cyc.outcome = "raised"
        /\ ExitCode(cyc.outcome) \notin {ExitOk, ExitNoTrades, ExitSendFailed}

\* a send succeeded and the write of the state then failed
C6_Witness ==
    /\ pc = "done"
    /\ cyc.ok = "ok"
    /\ cyc.save = "write_failed"

\* the state on disk holds no usable last_trade_id
C7_Unusable(f) == f.kind /= "object" \/ f.last_trade_id = None

C9_AtMostOnce_AsClaimed == \A i \in Ids : delivered[i] <= 1

\* C9, amended: once a trade was delivered and save_last_seen wrote the
\* file, the state holds the trade's id; a trade is never delivered while
\* the state holds its id, so not in the cycle after that one either.
C9_AtMostOnceWhenSaved ==
    /\ (pc \in {"done", "idle"} /\ cyc.ok = "ok" /\ cyc.save = "written" =>
           StoredId(file) = cyc.sentId)
    /\ (pc \notin {"done", "idle"} => file = cyc.start)
    /\ (cyc.sends > 0 => StoredId(cyc.start) /= cyc.sentId)
    /\ (prev.ok = "ok" /\ prev.save = "written" /\ cyc.sends > 0 =>
           cyc.sentId /= prev.sentId)

\* the cycle after a delivered and recorded trade extracted the same trade
\* and sent nothing
C9_Witness ==
    /\ pc = "done"
    /\ prev.ok = "ok" /\ prev.save = "written"
    /\ trades /= <<>>
    /\ trades[1].id = prev.sentId
    /\ cyc.sends = 0

\* C3, within a cycle and from one cycle to the next: at most one send is
\* attempted per cycle, and the cycle after a failed send of R that extracts
\* R again attempts to send R again.
C3_Safety ==
    /\ cyc.sends <= 1
    /\ (cyc.ok = "failed" => pc \in {"done", "idle"})
    /\ (pc = "done" /\ prev.ok = "failed" /\ trades /= <<>>
          /\ trades[1].id = prev.sentId =>
           /\ cyc.sends = 1
           /\ cyc.sentId = prev.sentId)

\* after a failed send of R the state eventually holds R's id
C3_Eventually ==
    \A r \in Ids : (cyc.ok = "failed" /\ cyc.sentId = r) ~> (StoredId(file) = r)

\* no write of save_last_seen has failed in the running or the last cycle
C3_NoSaveFailure == cyc.save \notin {"open_failed", "write_failed"}

\* C3, as claimed: retry is by re-detection in the next cycle, never inside
\* a cycle, and with a notifier that eventually succeeds and an unchanged
\* page the stored id eventually is R's.
C3_Retry_AsClaimed == []C3_Safety /\ C3_Eventually

\* C3, amended: as claimed, but the stored id eventually is R's when in
\* addition the writes of save_last_seen stop failing.
C3_Retry == []C3_Safety /\ (<>[]C3_NoSaveFailure => C3_Eventually)

\* a failed send of R was followed by a cycle that sent R and recorded it
C3_Witness ==
    /\ pc = "done"
    /\ prev.ok = "failed"
    /\ cyc.sends = 1
    /\ cyc.sentId = prev.sentId
    /\ cyc.ok = "ok"
    /\ cyc.save = "written"
    /\ StoredId(file) = prev.sentId

=============================================================================
